---- MODULE Spec2Model ----
(***************************************************************************)
(* The two search-index synchronisation workers of the to-do service:      *)
(*   - the Kafka consumer   (src/unnamed/part_000, elasticsearch-indexer)  *)
(*   - the Redis subscriber (src/unnamed/part_001, lines 1-203)            *)
(* Each is one process with a consumer-loop goroutine (ListenAndServe)     *)
(* and a signal goroutine that calls Server.Shutdown.  `backend` says      *)
(* which of the two programs is running.                                   *)
(* RunSpec adds run and main around the server: the error channel errC,    *)
(* the signal goroutine's report and clean-up, and main's exit.            *)
(* RepoSpec is the relational Task repository (package postgresql in       *)
(* src/internal/envvar/envvar.go) called in sequence over one table.       *)
(* DrainSpec is the Kafka program with the loop's select and its Poll as   *)
(* separate steps, so that a stop signal can fall between the two.         *)
(* EnvSpec is Configuration.Get (package envvar) over a changing           *)
(* environment.                                                            *)
(*                                                                         *)
(* Offsets are 1-based here: log[o] is the message at offset o, `position` *)
(* is the offset the next Poll returns, `committed` the offset a consumer  *)
(* resumes from after a rebalance (CommitMessage(m) stores offset(m)+1).   *)
(***************************************************************************)
EXTENDS Integers, Sequences, FiniteSets, TLC

\* ---------------------------------------------------------------- bounds
MaxLog == 2         \* messages the write path publishes
MaxRebalance == 1   \* partition re-assignments (redelivery from committed)
MaxBuf == 2         \* messages buffered in the Redis subscription channel
MaxRows == 2        \* UUIDs the tasks table can generate

\* ------------------------------------------------------------ data model
IDs == {"a", "b"}
Descs == {"d1", "d2"}
NoDoc == "<absent>"

Created == "tasks.event.created"
Updated == "tasks.event.updated"
Deleted == "tasks.event.deleted"
Archived == "tasks.event.archived"   \* matches "tasks.*", no case handles it

ZeroTask == [ID |-> "", Description |-> ""]

\* JSON texts, by shape
JMalformed == [kind |-> "malformed"]
JString(s) == [kind |-> "string", str |-> s]
JTask(id, d) == [kind |-> "object", ID |-> id, Description |-> d]
JEnvelope(t, v) == [kind |-> "envelope", Type |-> t, Value |-> v]
NoMsg == [kind |-> "none"]

\* json.Decode into an internaldomain.Task: only a JSON object decodes
DecodeTask(j) ==
    IF j.kind = "object"
    THEN [err |-> FALSE, task |-> [ID |-> j.ID, Description |-> j.Description]]
    ELSE [err |-> TRUE, task |-> ZeroTask]

\* json.Decode into a string: only a JSON string decodes
DecodeString(j) ==
    IF j.kind = "string"
    THEN [err |-> FALSE, id |-> j.str]
    ELSE [err |-> TRUE, id |-> ""]

\* json.Decode into struct{Type string; Value internaldomain.Task}
DecodeEnvelope(b) ==
    IF b.kind = "envelope"
    THEN [err |-> DecodeTask(b.Value).err, Type |-> b.Type,
          Value |-> DecodeTask(b.Value).task]
    ELSE [err |-> TRUE, Type |-> "", Value |-> ZeroTask]

\* the task snapshots on the wire: a task is created as "d1", updated to "d2"
Snapshots(t) == {JTask(id, IF t = Created THEN "d1" ELSE "d2") : id \in IDs}

\* messages the write path may put on the Kafka topic
KafkaWire ==
    {JMalformed}
    \cup {JEnvelope(Created, v) : v \in Snapshots(Created)}
    \cup {JEnvelope(Updated, v) : v \in Snapshots(Updated)}
    \cup {JEnvelope(Deleted, JTask(id, "")) : id \in IDs}
    \cup {JEnvelope(Deleted, JString("a"))}
    \cup {JEnvelope(Archived, JTask("a", "d1"))}

\* messages the write path may publish on a Redis channel matching tasks.*
RedisWire ==
    {[kind |-> "redis", channel |-> Created, payload |-> p] :
        p \in {JMalformed} \cup Snapshots(Created)}
    \cup {[kind |-> "redis", channel |-> Updated, payload |-> p] :
        p \in {JString("a")} \cup Snapshots(Updated)}
    \cup {[kind |-> "redis", channel |-> Deleted, payload |-> p] :
        p \in {JMalformed, JTask("a", "d1")} \cup {JString(id) : id \in IDs}}
    \cup {[kind |-> "redis", channel |-> Archived, payload |-> JString("a")]}

\* ---------------------------------------------------------- search index
\* variant: incremental instead of overwrite, an existing document is merged
IndexTask_Incremental(idx, task, fault) ==
    IF fault
    THEN [err |-> TRUE, index |-> idx]
    ELSE [err |-> FALSE,
          index |-> [idx EXCEPT ![task.ID] =
                        IF idx[task.ID] = NoDoc THEN task.Description ELSE "merged"]]

\* elasticsearch.Task.Index: overwrite the document of task.ID; a failure
\* of the search collaborator is returned and leaves the index as it was
IndexTask(idx, task, fault) ==
    IF fault
    THEN [err |-> TRUE, index |-> idx]
    ELSE [err |-> FALSE, index |-> [idx EXCEPT ![task.ID] = task.Description]]

\* variant: deleting an absent document is reported as an error
DeleteTask_NotFoundIsError(idx, id, fault) ==
    IF fault \/ idx[id] = NoDoc
    THEN [err |-> TRUE, index |-> idx]
    ELSE [err |-> FALSE, index |-> [i \in DOMAIN idx |-> IF i = id THEN NoDoc ELSE idx[i]]]

\* elasticsearch.Task.Delete: remove the document of id; an absent id is
\* not an error
DeleteTask(idx, id, fault) ==
    IF fault
    THEN [err |-> TRUE, index |-> idx]
    ELSE [err |-> FALSE, index |-> [i \in DOMAIN idx |-> IF i = id THEN NoDoc ELSE idx[i]]]

\* ------------------------------------------------- relational repository
\* (src/internal/envvar/envvar.go lines 59-199, package postgresql)
Uuids == 1..MaxRows
NoRow == [row |-> "none"]

\* id strings: the canonical text of a UUID, another accepted spelling of
\* it (upper case), the empty string, and a text that is no UUID ("x")
Canon(u) == [form |-> "canonical", u |-> u]
Upper(u) == [form |-> "upper", u |-> u]
EmptyId == [form |-> "empty", u |-> 0]
BadId == [form |-> "invalid", u |-> 0]
IdStringsIn == {Canon(u) : u \in Uuids} \cup {Upper(1), BadId}

\* uuid.Parse: every accepted spelling gives the UUID, anything else fails
UuidParse(s) ==
    IF s.form \in {"canonical", "upper"}
    THEN [err |-> FALSE, val |-> s.u]
    ELSE [err |-> TRUE, val |-> 0]

\* uuid.UUID.String: the canonical text
UuidString(u) == Canon(u)

\* time.Time values: a count of microseconds and the nanoseconds below it
ZeroTime == [us |-> 0, ns |-> 0]
DatesIn ==
    {[Start |-> ZeroTime, Due |-> ZeroTime],
     [Start |-> [us |-> 1, ns |-> 0], Due |-> [us |-> 2, ns |-> 0]],
     [Start |-> [us |-> 1, ns |-> 0], Due |-> [us |-> 2, ns |-> 1]]}

\* internal.Priority values: the defined ones, and Priority(-1) as "bad"
DbPriority == {"none", "low", "medium", "high"}

\* what callers pass: a task is created as "test" with no priority and
\* updated to "changed" with high priority, or with Priority(-1)
CreateDescs == {"test"}
CreatePriorities == {"none", "bad"}
UpdateDescs == {"changed"}
UpdatePriorities == {"high", "bad"}

\* internal.Task{}
EmptyTask ==
    [ID |-> EmptyId, Description |-> "", Priority |-> "none",
     Dates |-> [Start |-> ZeroTime, Due |-> ZeroTime], IsDone |-> FALSE]

\* newPriority: a defined priority maps to its enum label, anything else
\* to the label "invalid", which the enum column rejects
newPriority(p) == IF p \in DbPriority THEN p ELSE "invalid"

\* convertPriority: an enum label maps back, anything else is an error
convertPriority(p) ==
    IF p \in DbPriority THEN [err |-> FALSE, p |-> p] ELSE [err |-> TRUE, p |-> "bad"]

\* newTimestamp: the zero time becomes NULL
newTimestamp(t) == [Time |-> t, Valid |-> t # ZeroTime]

\* a timestamp column keeps microseconds; NULL reads back as the zero time
Column(ts) ==
    IF ts.Valid THEN [Time |-> [us |-> ts.Time.us, ns |-> 0], Valid |-> TRUE]
    ELSE [Time |-> ZeroTime, Valid |-> FALSE]

\* db.Queries.InsertTask: a new row under a fresh UUID u, done = false; a
\* value outside the priority enum is rejected
QInsertTask(st, u, p) ==
    IF p.Priority \notin DbPriority
    THEN [err |-> "enum", id |-> 0, store |-> st]
    ELSE [err |-> "nil", id |-> u,
          store |-> [st EXCEPT ![u] =
                        [Description |-> p.Description, Priority |-> p.Priority,
                         StartDate |-> Column(p.StartDate), DueDate |-> Column(p.DueDate),
                         Done |-> FALSE]]]

\* db.Queries.SelectTask: the row of the id, or pgx.ErrNoRows
QSelectTask(st, u) ==
    IF st[u] = NoRow
    THEN [err |-> "noRows", row |-> NoRow]
    ELSE [err |-> "nil", row |-> st[u]]

\* db.Queries.UpdateTask: overwrite the row of p.ID; a value outside the
\* priority enum is rejected when the statement is bound, and no row
\* matching gives pgx.ErrNoRows
QUpdateTask(st, p) ==
    IF p.Priority \notin DbPriority
    THEN [err |-> "enum", store |-> st]
    ELSE IF st[p.ID] = NoRow
    THEN [err |-> "noRows", store |-> st]
    ELSE [err |-> "nil",
          store |-> [st EXCEPT ![p.ID] =
                        [Description |-> p.Description, Priority |-> p.Priority,
                         StartDate |-> Column(p.StartDate), DueDate |-> Column(p.DueDate),
                         Done |-> p.Done]]]

\* db.Queries.DeleteTask: remove the row of the id, or pgx.ErrNoRows
QDeleteTask(st, u) ==
    IF st[u] = NoRow
    THEN [err |-> "noRows", store |-> st]
    ELSE [err |-> "nil", store |-> [st EXCEPT ![u] = NoRow]]

\* what a repository call returned: error code ("ok" for nil), whether the
\* error wraps pgx.ErrNoRows, the task, the store after it, queries issued
Ret(code, noRows, task, st, queries) ==
    [code |-> code, noRows |-> noRows, task |-> task, store |-> st, queries |-> queries]

\* variant: the dates are left out of the insert
InsertParams_NoDates(params) ==
    [Description |-> params.Description, Priority |-> newPriority(params.Priority),
     StartDate |-> newTimestamp(ZeroTime), DueDate |-> newTimestamp(ZeroTime)]

\* db.InsertTaskParams built by Task.Create
InsertParams(params) ==
    [Description |-> params.Description, Priority |-> newPriority(params.Priority),
     StartDate |-> newTimestamp(params.Dates.Start),
     DueDate |-> newTimestamp(params.Dates.Due)]

\* Task.Create
Create(st, u, params) ==
    LET ins == QInsertTask(st, u, InsertParams(params))
    IN IF ins.err # "nil"
       THEN Ret("Unknown", FALSE, EmptyTask, ins.store, 1)
       ELSE Ret("ok", FALSE,
                [ID |-> UuidString(ins.id), Description |-> params.Description,
                 Priority |-> params.Priority, Dates |-> params.Dates, IsDone |-> FALSE],
                ins.store, 1)

\* variant: an id that is no UUID reaches the query, which finds no row
Delete_BadIdNotFound(st, id) ==
    LET val == UuidParse(id)
        del == QDeleteTask(st, val.val)
    IN IF val.err
       THEN Ret("NotFound", TRUE, EmptyTask, st, 1)
       ELSE IF del.err = "noRows"
       THEN Ret("NotFound", TRUE, EmptyTask, del.store, 1)
       ELSE IF del.err # "nil"
       THEN Ret("Unknown", FALSE, EmptyTask, del.store, 1)
       ELSE Ret("ok", FALSE, EmptyTask, del.store, 1)

\* Task.Delete
Delete(st, id) ==
    LET val == UuidParse(id)
        del == QDeleteTask(st, val.val)
    IN IF val.err
       THEN Ret("InvalidArgument", FALSE, EmptyTask, st, 0)
       ELSE IF del.err = "noRows"
       THEN Ret("NotFound", TRUE, EmptyTask, del.store, 1)
       ELSE IF del.err # "nil"
       THEN Ret("Unknown", FALSE, EmptyTask, del.store, 1)
       ELSE Ret("ok", FALSE, EmptyTask, del.store, 1)

\* variant: a missing row is reported as an unknown error
Find_NoRowsUnknown(st, id) ==
    LET val == UuidParse(id)
        res == QSelectTask(st, val.val)
    IN IF val.err
       THEN Ret("InvalidArgument", FALSE, EmptyTask, st, 0)
       ELSE IF res.err # "nil"
       THEN Ret("Unknown", res.err = "noRows", EmptyTask, st, 1)
       ELSE Ret("ok", FALSE,
                [ID |-> UuidString(val.val), Description |-> res.row.Description,
                 Priority |-> convertPriority(res.row.Priority).p,
                 Dates |-> [Start |-> res.row.StartDate.Time, Due |-> res.row.DueDate.Time],
                 IsDone |-> res.row.Done],
                st, 1)

\* Task.Find
Find(st, id) ==
    LET val == UuidParse(id)
        res == QSelectTask(st, val.val)
    IN IF val.err
       THEN Ret("InvalidArgument", FALSE, EmptyTask, st, 0)
       ELSE IF res.err = "noRows"
       THEN Ret("NotFound", TRUE, EmptyTask, st, 1)
       ELSE IF res.err # "nil"
       THEN Ret("Unknown", FALSE, EmptyTask, st, 1)
       ELSE IF convertPriority(res.row.Priority).err
       THEN Ret("InvalidArgument", FALSE, EmptyTask, st, 1)
       ELSE Ret("ok", FALSE,
                [ID |-> UuidString(val.val), Description |-> res.row.Description,
                 Priority |-> convertPriority(res.row.Priority).p,
                 Dates |-> [Start |-> res.row.StartDate.Time, Due |-> res.row.DueDate.Time],
                 IsDone |-> res.row.Done],
                st, 1)

\* variant: isDone is left out of the update
UpdateParams_NoDone(val, description, priority, dates, isDone) ==
    [ID |-> val, Description |-> description, Priority |-> newPriority(priority),
     StartDate |-> newTimestamp(dates.Start), DueDate |-> newTimestamp(dates.Due),
     Done |-> FALSE]

\* db.UpdateTaskParams built by Task.Update
UpdateParams(val, description, priority, dates, isDone) ==
    [ID |-> val, Description |-> description, Priority |-> newPriority(priority),
     StartDate |-> newTimestamp(dates.Start), DueDate |-> newTimestamp(dates.Due),
     Done |-> isDone]

\* variant: an update that matched no row returns nil
Update_MissingIsOk(st, id, description, priority, dates, isDone) ==
    LET val == UuidParse(id)
        upd == QUpdateTask(st, UpdateParams(val.val, description, priority, dates, isDone))
    IN IF val.err
       THEN Ret("InvalidArgument", FALSE, EmptyTask, st, 0)
       ELSE IF upd.err \notin {"nil", "noRows"}
       THEN Ret("Unknown", FALSE, EmptyTask, upd.store, 1)
       ELSE Ret("ok", FALSE, EmptyTask, upd.store, 1)

\* Task.Update
Update(st, id, description, priority, dates, isDone) ==
    LET val == UuidParse(id)
        upd == QUpdateTask(st, UpdateParams(val.val, description, priority, dates, isDone))
    IN IF val.err
       THEN Ret("InvalidArgument", FALSE, EmptyTask, st, 0)
       ELSE IF upd.err = "noRows"
       THEN Ret("NotFound", TRUE, EmptyTask, upd.store, 1)
       ELSE IF upd.err # "nil"
       THEN Ret("Unknown", FALSE, EmptyTask, upd.store, 1)
       ELSE Ret("ok", FALSE, EmptyTask, upd.store, 1)

\* no repository call has returned yet
NoArgs == [Description |-> "", Priority |-> "none",
           Dates |-> [Start |-> ZeroTime, Due |-> ZeroTime], IsDone |-> FALSE]
NoCall ==
    [op |-> "none", id |-> EmptyId, args |-> NoArgs, code |-> "ok", noRows |-> FALSE,
     task |-> EmptyTask, queries |-> 0]

\* --------------------------------------------------------- configuration
\* (src/internal/envvar/envvar.go lines 1-57, package envvar)
Keys == {"DB", "ES"}
Unset == [set |-> FALSE, val |-> ""]
SetTo(v) == [set |-> TRUE, val |-> v]

\* the environment variables Get reads for a key: key and key + "_SECURE"
Plain(key) == [key |-> key, secure |-> FALSE]
Secure(key) == [key |-> key, secure |-> TRUE]
Names == {Plain(k) : k \in Keys} \cup {Secure(k) : k \in Keys}

\* values a variable may be set to: the empty string, a value, a secret's path
EnvValues == {"", "v", "/path"}

\* os.Getenv: the value, or "" when the variable is not set
Getenv(ev, name) == IF ev[name].set THEN ev[name].val ELSE ""

\* what Provider.Get may return: a secret, an empty secret, or an error
ProviderOutcomes ==
    {[err |-> FALSE, val |-> "s"], [err |-> FALSE, val |-> ""],
     [err |-> TRUE, val |-> ""], [err |-> TRUE, val |-> "s"]}

\* variant: a provider error is dropped and the plain value returned
Get_ErrIgnored(ev, key, p) ==
    LET res == Getenv(ev, Plain(key))
        valSecret == Getenv(ev, Secure(key))
    IN IF valSecret # ""
       THEN [value |-> IF p.err THEN res ELSE p.val, code |-> "ok",
             calls |-> <<valSecret>>]
       ELSE [value |-> res, code |-> "ok", calls |-> <<>>]

\* Configuration.Get, with p what the provider returns if it is called:
\* the value returned, the error code ("ok" for nil), the provider calls
Get(ev, key, p) ==
    LET res == Getenv(ev, Plain(key))
        valSecret == Getenv(ev, Secure(key))
    IN IF valSecret # ""
       THEN IF p.err
            THEN [value |-> "", code |-> "InvalidArgument", calls |-> <<valSecret>>]
            ELSE [value |-> p.val, code |-> "ok", calls |-> <<valSecret>>]
       ELSE [value |-> res, code |-> "ok", calls |-> <<>>]

\* Get has not been called in this environment
NoGet ==
    [called |-> FALSE, key |-> "", p |-> [err |-> FALSE, val |-> ""], value |-> "",
     code |-> "ok", calls |-> <<>>]

\* what an event leaves in a projection p once it has been applied: a
\* created/updated event leaves its payload, a deleted event leaves nothing
Applied(p, w) ==
    LET type == IF w.kind = "envelope" THEN w.Type ELSE w.channel
        payload == IF w.kind = "envelope" THEN w.Value ELSE w.payload
    IN IF type \in {Created, Updated}
       THEN [i \in DOMAIN p |-> IF i = payload.ID THEN payload.Description ELSE p[i]]
       ELSE IF type = Deleted
       THEN LET id == IF payload.kind = "string" THEN payload.str ELSE payload.ID
            IN [i \in DOMAIN p |-> IF i = id THEN NoDoc ELSE p[i]]
       ELSE p

\* ------------------------------------------------------------------ state
VARIABLES
    backend,     \* "kafka" or "redis": the program that runs
    index,       \* the search index: ID -> Description or NoDoc
    lpc,         \* consumer loop: init, loop, polling, applying, sendDone, stopped, startFailed
    spc,         \* Server.Shutdown: idle, waiting, retNil, retErr, panic
    closed,      \* kafka: closeC is closed; redis: the pubsub is closed
    log,         \* kafka: the partition's messages
    position,    \* kafka: offset the next Poll returns
    committed,   \* kafka: the group's committed offset
    rebalances,  \* kafka: re-assignments so far
    subscribed,  \* redis: s.pubsub is assigned
    ch,          \* redis: messages buffered in pubsub.Channel()
    chClosed,    \* redis: the channel returned by pubsub.Channel() is closed
    published,   \* redis: messages delivered to the subscription so far
    cur,         \* the iteration in progress or last finished: message, calls made
    lastOk,      \* the message whose apply succeeded most recently
    failed,      \* kafka: offsets whose latest apply failed
    proj,        \* ID -> what the successfully applied events so far leave for it
    errC,        \* run's error channel: buffered values and whether it is closed
    mainpc,      \* main: waiting on errC, fatal (log.Fatalf), exit0 (returned)
    sig,         \* signal goroutine after Shutdown: pre, reported, cleaned
    store,       \* repository: the tasks table, UUID -> row or NoRow
    issued,      \* repository: the UUIDs generated so far
    last,        \* repository: the call that returned last and what it returned
    drained,     \* ghost: messages the loop fetched after the stop signal
    early,       \* ghost: Shutdown was called before ListenAndServe
    env,         \* configuration: the process environment, name -> value or Unset
    got          \* configuration: what Get returned in this environment

vars == <<backend, index, lpc, spc, closed, log, position, committed, rebalances,
          subscribed, ch, chClosed, published, cur, lastOk, failed, proj,
          errC, mainpc, sig, store, issued, last, env, got, drained, early>>

kafkaVars == <<log, position, committed, rebalances, failed>>
redisVars == <<subscribed, ch, chClosed, published>>
procVars == <<errC, mainpc, sig>>
repoVars == <<store, issued, last>>
envVars == <<env, got>>
ghostVars == <<drained, early>>

NoIteration ==
    [wire |-> NoMsg, off |-> 0, op |-> "none", task |-> ZeroTask, id |-> "",
     nIndex |-> 0, nDelete |-> 0, nCommit |-> 0, outcome |-> "none", fault |-> FALSE,
     dup |-> FALSE, was |-> NoDoc]

Init ==
    /\ backend \in {"kafka", "redis"}
    /\ index \in [IDs -> {NoDoc, "d1"}]
    /\ lpc = "init"
    /\ spc = "idle"
    /\ closed = FALSE
    /\ log = <<>>
    /\ position = 1
    /\ committed = 1
    /\ rebalances = 0
    /\ subscribed = FALSE
    /\ ch = <<>>
    /\ chClosed = FALSE
    /\ published = 0
    /\ cur = NoIteration
    /\ lastOk = NoMsg
    /\ failed = {}
    /\ proj = index
    /\ errC = [buf |-> <<>>, closed |-> FALSE]
    /\ mainpc = "waiting"
    /\ sig = "pre"
    /\ store = [u \in Uuids |-> NoRow]
    /\ issued = {}
    /\ last = NoCall
    /\ env = [n \in Names |-> Unset]
    /\ got = NoGet
    /\ drained = 0
    /\ early = FALSE

\* the process runs: main has not exited and no goroutine has panicked
Alive == mainpc = "waiting" /\ spc # "panic"

\* errC := make(chan error, 1)
ErrCCap == 1

\* variant: the value is sent whether or not it is nil
SendIfErr_Always(c, err) == [c EXCEPT !.buf = Append(@, err)]

\* if err != nil { errC <- err }
SendIfErr(c, err) ==
    IF err # "nil" THEN [c EXCEPT !.buf = Append(@, err)] ELSE c

\* the send does not block: err is nil or the buffer has room
CanSend(c, err) == err = "nil" \/ Len(c.buf) < ErrCCap

\* the error value Server.Shutdown returned
ShutdownErr(ret) == IF ret = "retErr" THEN "shutdown" ELSE "nil"

\* variant: main returns whatever it read
MainOnValue_Ignore(v) == "exit0"

\* main: if err := <-errC; err != nil { log.Fatalf(...) }
MainOnValue(v) == IF v # "nil" THEN "fatal" ELSE "exit0"

\* main's receive on errC: a buffered value, or nil once errC is closed
MainRead ==
    /\ mainpc = "waiting"
    /\ IF errC.buf # <<>>
       THEN /\ mainpc' = MainOnValue(Head(errC.buf))
            /\ errC' = [errC EXCEPT !.buf = Tail(@)]
       ELSE /\ errC.closed
            /\ mainpc' = MainOnValue("nil")
            /\ errC' = errC

\* signal goroutine, after Shutdown returned: if err != nil { errC <- err }
SigReport ==
    /\ sig = "pre"
    /\ spc \in {"retNil", "retErr"}
    /\ CanSend(errC, ShutdownErr(spc))
    /\ errC' = SendIfErr(errC, ShutdownErr(spc))
    /\ sig' = "reported"

\* signal goroutine's deferred function: release the broker handle, close(errC)
SigCleanup ==
    /\ sig = "reported"
    /\ errC' = [errC EXCEPT !.closed = TRUE]
    /\ sig' = "cleaned"

\* ------------------------------------------------------- kafka consumer
\* variant: the created/updated case passes an empty task
KDispatch_EmptyTask(evt) ==
    IF evt.Type \in {Updated, Created}
    THEN [op |-> "Index", task |-> ZeroTask, id |-> ""]
    ELSE IF evt.Type = Deleted
    THEN [op |-> "Delete", task |-> ZeroTask, id |-> evt.Value.ID]
    ELSE [op |-> "none", task |-> ZeroTask, id |-> ""]

\* variant: the deleted case falls into the index call
KDispatch_DeleteAsIndex(evt) ==
    IF evt.Type \in {Updated, Created, Deleted}
    THEN [op |-> "Index", task |-> evt.Value, id |-> ""]
    ELSE [op |-> "none", task |-> ZeroTask, id |-> ""]

\* the switch on evt.Type
KDispatch(evt) ==
    IF evt.Type \in {Updated, Created}
    THEN [op |-> "Index", task |-> evt.Value, id |-> ""]
    ELSE IF evt.Type = Deleted
    THEN [op |-> "Delete", task |-> ZeroTask, id |-> evt.Value.ID]
    ELSE [op |-> "none", task |-> ZeroTask, id |-> ""]

\* variant: ok is set whatever the applier returned
KOk_IgnoreErr(err) == TRUE

\* ok after the switch: set only when the applier returned nil
KOk(err) == ~err

\* variant: the decode-failure branch only logs
KCommitOnDecodeError_Skip == FALSE

\* the decode-failure branch commits the message
KCommitOnDecodeError == TRUE

\* CommitMessage(msg): stores offset(msg)+1 unless the call fails
CommitMessage(off, commitOk) == IF commitOk THEN off + 1 ELSE committed

\* the write path appends a message to the topic
KProduce ==
    /\ backend = "kafka"
    /\ Len(log) < MaxLog
    /\ \E m \in KafkaWire : log' = Append(log, m)
    /\ UNCHANGED <<ghostVars, envVars, repoVars, procVars, proj, backend, index, lpc, spc, closed, position,
                   committed, rebalances, redisVars, cur, lastOk, failed>>

\* variant: the loop polls once before it looks at closeC
LoopEntry_PollFirst == "polling"

\* the goroutine enters `for run` at the select
LoopEntry == "loop"

\* Server.ListenAndServe: launches the loop goroutine
KListenAndServe ==
    /\ backend = "kafka"
    /\ Alive
    /\ lpc = "init"
    /\ lpc' = LoopEntry
    /\ UNCHANGED <<ghostVars, envVars, repoVars, procVars, proj, backend, index, spc, closed, kafkaVars, redisVars, cur, lastOk>>

\* variant: the select takes its default branch whatever closeC is
SelectDefault_Always(c) == TRUE

\* select: the default branch runs only while <-s.closeC is not ready
SelectDefault(c) == ~c

\* the loop is where Poll returns: inside Poll, or at a select that takes default
AtPoll == lpc = "polling" \/ (lpc = "loop" /\ SelectDefault(closed))

\* variant: the applier is started and the loop goes on
AfterDispatch_Async == "loop"

\* the loop calls s.task.Index / s.task.Delete and waits for its return
AfterDispatch == "applying"

\* variant: the loop goes on after the completion send
AfterDone_Loop == "loop"

\* the completion send is the goroutine's last statement
AfterDone == "stopped"

\* select: case <-s.closeC
KSelectClose ==
    /\ backend = "kafka"
    /\ Alive
    /\ lpc = "loop"
    /\ closed
    /\ lpc' = "sendDone"
    /\ UNCHANGED <<ghostVars, envVars, repoVars, procVars, proj, backend, index, spc, closed, kafkaVars, redisVars, cur, lastOk>>

\* select default: Poll serves a re-assignment and returns no message; the
\* consumer resumes from the committed offset
KPollRebalance ==
    /\ backend = "kafka"
    /\ Alive
    /\ AtPoll
    /\ rebalances < MaxRebalance
    /\ position # committed
    /\ position' = committed
    /\ rebalances' = rebalances + 1
    /\ lpc' = "loop"
    /\ UNCHANGED <<ghostVars, envVars, repoVars, procVars, proj, backend, index, spc, closed, log, committed, failed,
                   redisVars, cur, lastOk>>

\* select default: Poll returns a message; decode, dispatch
KPollMessage ==
    /\ backend = "kafka"
    /\ Alive
    /\ AtPoll
    /\ position <= Len(log)
    /\ drained' = IF closed THEN drained + 1 ELSE drained
    /\ LET msg == log[position]
           evt == DecodeEnvelope(msg)
           d == KDispatch(evt)
           it == [NoIteration EXCEPT !.wire = msg, !.off = position, !.dup = (lastOk = msg)]
       IN /\ position' = position + 1
          /\ IF evt.err
             THEN /\ lpc' = "loop"
                  /\ IF KCommitOnDecodeError
                     THEN \E commitOk \in BOOLEAN :
                            /\ committed' = CommitMessage(position, commitOk)
                            /\ cur' = [it EXCEPT !.outcome = "decodeErr", !.nCommit = 1]
                     ELSE /\ committed' = committed
                          /\ cur' = [it EXCEPT !.outcome = "decodeErr"]
             ELSE IF d.op = "none"
             THEN /\ lpc' = "loop"
                  /\ committed' = committed
                  /\ cur' = [it EXCEPT !.outcome = "noDispatch"]
             ELSE /\ lpc' = AfterDispatch
                  /\ committed' = committed
                  /\ cur' = [it EXCEPT !.outcome = "applying", !.op = d.op,
                                       !.task = d.task, !.id = d.id,
                                       !.nIndex = IF d.op = "Index" THEN 1 ELSE 0,
                                       !.nDelete = IF d.op = "Delete" THEN 1 ELSE 0]
    /\ UNCHANGED <<early, envVars, repoVars, procVars, proj, backend, index, spc, closed, log, rebalances, failed,
                   redisVars, lastOk>>

\* select: default is chosen and Poll(150) is entered
KSelectDefault ==
    /\ backend = "kafka"
    /\ Alive
    /\ lpc = "loop"
    /\ SelectDefault(closed)
    /\ lpc' = "polling"
    /\ UNCHANGED <<ghostVars, envVars, repoVars, procVars, proj, backend, index, spc, closed, kafkaVars, redisVars, cur, lastOk>>

\* Poll(150) times out: !ok, continue
KPollEmpty ==
    /\ backend = "kafka"
    /\ Alive
    /\ lpc = "polling"
    /\ lpc' = "loop"
    /\ UNCHANGED <<ghostVars, envVars, repoVars, procVars, proj, backend, index, spc, closed, kafkaVars, redisVars, cur, lastOk>>

\* s.task.Index / s.task.Delete returns; if ok, commit
KApplyReturn ==
    /\ backend = "kafka"
    /\ Alive
    /\ lpc = "applying"
    /\ \E fault \in BOOLEAN :
         LET r == IF cur.op = "Index" THEN IndexTask(index, cur.task, fault)
                                      ELSE DeleteTask(index, cur.id, fault)
             ok == KOk(r.err)
             key == IF cur.op = "Index" THEN cur.task.ID ELSE cur.id
         IN /\ index' = r.index
            /\ proj' = IF r.err THEN proj ELSE Applied(proj, cur.wire)
            /\ failed' = IF r.err THEN failed \cup {cur.off} ELSE failed \ {cur.off}
            /\ lastOk' = IF r.err THEN lastOk ELSE cur.wire
            /\ IF ok
               THEN \E commitOk \in BOOLEAN :
                      /\ committed' = CommitMessage(cur.off, commitOk)
                      /\ cur' = [cur EXCEPT !.outcome = IF r.err THEN "applyErr" ELSE "applyOk",
                                            !.fault = fault, !.was = index[key],
                                            !.nCommit = 1]
               ELSE /\ committed' = committed
                    /\ cur' = [cur EXCEPT !.outcome = IF r.err THEN "applyErr" ELSE "applyOk",
                                          !.fault = fault, !.was = index[key]]
    /\ lpc' = "loop"
    /\ UNCHANGED <<ghostVars, envVars, repoVars, procVars, backend, spc, closed, log, position, rebalances,
                   redisVars>>

\* what ListenAndServe returns once its loop has ended
KListenAndServeReturn == "nil"

\* s.doneC <- struct{}{} meets Shutdown's <-s.doneC; ListenAndServe returns
\* and run's goroutine sends the result on errC if it is an error
KSendDone ==
    /\ backend = "kafka"
    /\ Alive
    /\ lpc = "sendDone"
    /\ spc = "waiting"
    /\ lpc' = AfterDone
    /\ spc' = "retNil"
    /\ errC' = SendIfErr(errC, KListenAndServeReturn)
    /\ UNCHANGED <<ghostVars, envVars, repoVars, mainpc, sig, proj, backend, index, closed, kafkaVars, redisVars,
                   cur, lastOk>>

\* Server.Shutdown: close(s.closeC), then wait
KShutdown ==
    /\ backend = "kafka"
    /\ Alive
    /\ spc = "idle"
    /\ closed' = TRUE
    /\ spc' = "waiting"
    /\ early' = (lpc = "init")
    /\ UNCHANGED <<drained, envVars, repoVars, procVars, proj, backend, index, lpc, kafkaVars, redisVars, cur, lastOk>>

\* variant: the deadline case returns nil
KDeadlineReturn_Nil == "retNil"

\* what Shutdown returns on <-ctx.Done(): the wrapped ctx.Err()
KDeadlineReturn == "retErr"

\* Server.Shutdown: case <-ctx.Done()
KShutdownDeadline ==
    /\ backend = "kafka"
    /\ Alive
    /\ spc = "waiting"
    /\ spc' = KDeadlineReturn
    /\ UNCHANGED <<ghostVars, envVars, repoVars, procVars, proj, backend, index, lpc, closed, kafkaVars, redisVars, cur, lastOk>>

\* run's signal goroutine: Shutdown returned, its error goes to errC
KSigReport ==
    /\ backend = "kafka"
    /\ Alive
    /\ SigReport
    /\ UNCHANGED <<ghostVars, envVars, repoVars, mainpc, proj, backend, index, lpc, spc, closed, kafkaVars, redisVars, cur, lastOk>>

\* run's signal goroutine: the deferred clean-up closes errC
KSigCleanup ==
    /\ backend = "kafka"
    /\ Alive
    /\ SigCleanup
    /\ UNCHANGED <<ghostVars, envVars, repoVars, mainpc, proj, backend, index, lpc, spc, closed, kafkaVars, redisVars, cur, lastOk>>

\* main: <-errC, then log.Fatalf or return
KMainRead ==
    /\ backend = "kafka"
    /\ Alive
    /\ MainRead
    /\ UNCHANGED <<ghostVars, envVars, repoVars, sig, proj, backend, index, lpc, spc, closed, kafkaVars, redisVars, cur, lastOk>>

KafkaNext ==
    \/ KProduce
    \/ KListenAndServe
    \/ KSelectClose
    \/ KPollRebalance
    \/ KPollMessage
    \/ KApplyReturn
    \/ KSendDone
    \/ KShutdown
    \/ KShutdownDeadline

\* ----------------------------------------------------- redis subscriber
\* variant: the deleted case is missing from the switch
RDispatch_NoDeleteCase(msg) ==
    IF msg.channel \in {Updated, Created}
    THEN IF DecodeTask(msg.payload).err
         THEN [op |-> "invalid", task |-> ZeroTask, id |-> ""]
         ELSE [op |-> "Index", task |-> DecodeTask(msg.payload).task, id |-> ""]
    ELSE [op |-> "none", task |-> ZeroTask, id |-> ""]

\* the switch on msg.Channel with the payload decode of each case
RDispatch(msg) ==
    IF msg.channel \in {Updated, Created}
    THEN IF DecodeTask(msg.payload).err
         THEN [op |-> "invalid", task |-> ZeroTask, id |-> ""]
         ELSE [op |-> "Index", task |-> DecodeTask(msg.payload).task, id |-> ""]
    ELSE IF msg.channel = Deleted
    THEN IF DecodeString(msg.payload).err
         THEN [op |-> "invalid", task |-> ZeroTask, id |-> ""]
         ELSE [op |-> "Delete", task |-> ZeroTask, id |-> DecodeString(msg.payload).id]
    ELSE [op |-> "none", task |-> ZeroTask, id |-> ""]

\* variant: the Receive error is logged and the loop is launched anyway
RStart_IgnoreErr(receiveOk) == [lpc |-> "loop", ret |-> "nil"]

\* ListenAndServe after pubsub.Receive: on an error return it, launching
\* nothing; otherwise launch the loop goroutine and return nil
RStart(receiveOk) ==
    IF receiveOk THEN [lpc |-> "loop", ret |-> "nil"]
    ELSE [lpc |-> "startFailed", ret |-> "start"]

\* Server.ListenAndServe: PSubscribe, Receive, assign s.pubsub, launch the loop;
\* run's goroutine sends the returned error on errC;
\* a Receive error is returned and nothing is launched
RListenAndServe ==
    /\ backend = "redis"
    /\ Alive
    /\ lpc = "init"
    /\ \E receiveOk \in BOOLEAN :
         LET r == RStart(receiveOk)
         IN /\ subscribed' = receiveOk
            /\ lpc' = r.lpc
            /\ errC' = SendIfErr(errC, r.ret)
    /\ UNCHANGED <<ghostVars, envVars, repoVars, mainpc, sig, proj, backend, index, spc, closed, kafkaVars, ch, chClosed, published,
                   cur, lastOk>>

\* the write path publishes on a tasks.* channel; the subscription buffers it
RPublish ==
    /\ backend = "redis"
    /\ Alive
    /\ subscribed
    /\ ~closed
    /\ published < MaxLog
    /\ Len(ch) < MaxBuf
    /\ \E m \in RedisWire : ch' = Append(ch, m)
    /\ published' = published + 1
    /\ UNCHANGED <<ghostVars, envVars, repoVars, procVars, proj, backend, index, lpc, spc, closed, kafkaVars, subscribed, chClosed,
                   cur, lastOk>>

\* the subscription's reader sees the closed pubsub and closes the channel
RChanClose ==
    /\ backend = "redis"
    /\ Alive
    /\ closed
    /\ ~chClosed
    /\ chClosed' = TRUE
    /\ UNCHANGED <<ghostVars, envVars, repoVars, procVars, proj, backend, index, lpc, spc, closed, kafkaVars, subscribed, ch, published,
                   cur, lastOk>>

\* for msg := range ch: next message; switch, decode
RTake ==
    /\ backend = "redis"
    /\ Alive
    /\ lpc = "loop"
    /\ ch # <<>>
    /\ drained' = IF closed THEN drained + 1 ELSE drained
    /\ LET msg == Head(ch)
           d == RDispatch(msg)
           it == [NoIteration EXCEPT !.wire = msg, !.off = 0, !.dup = (lastOk = msg)]
       IN /\ ch' = Tail(ch)
          /\ IF d.op = "invalid"
             THEN /\ lpc' = "loop"
                  /\ cur' = [it EXCEPT !.outcome = "decodeErr"]
             ELSE IF d.op = "none"
             THEN /\ lpc' = "loop"
                  /\ cur' = [it EXCEPT !.outcome = "noDispatch"]
             ELSE /\ lpc' = AfterDispatch
                  /\ cur' = [it EXCEPT !.outcome = "applying", !.op = d.op,
                                       !.task = d.task, !.id = d.id,
                                       !.nIndex = IF d.op = "Index" THEN 1 ELSE 0,
                                       !.nDelete = IF d.op = "Delete" THEN 1 ELSE 0]
    /\ UNCHANGED <<early, envVars, repoVars, procVars, proj, backend, index, spc, closed, kafkaVars, subscribed, chClosed, published,
                   lastOk>>

\* s.task.Index / s.task.Delete returns; an error is logged
RApplyReturn ==
    /\ backend = "redis"
    /\ Alive
    /\ lpc = "applying"
    /\ \E fault \in BOOLEAN :
         LET r == IF cur.op = "Index" THEN IndexTask(index, cur.task, fault)
                                      ELSE DeleteTask(index, cur.id, fault)
             key == IF cur.op = "Index" THEN cur.task.ID ELSE cur.id
         IN /\ index' = r.index
            /\ proj' = IF r.err THEN proj ELSE Applied(proj, cur.wire)
            /\ lastOk' = IF r.err THEN lastOk ELSE cur.wire
            /\ cur' = [cur EXCEPT !.outcome = IF r.err THEN "applyErr" ELSE "applyOk",
                                  !.fault = fault, !.was = index[key]]
    /\ lpc' = "loop"
    /\ UNCHANGED <<ghostVars, envVars, repoVars, procVars, backend, spc, closed, kafkaVars, redisVars>>

\* range ch ends: the channel is closed and drained
RRangeEnd ==
    /\ backend = "redis"
    /\ Alive
    /\ lpc = "loop"
    /\ ch = <<>>
    /\ chClosed
    /\ lpc' = "sendDone"
    /\ UNCHANGED <<ghostVars, envVars, repoVars, procVars, proj, backend, index, spc, closed, kafkaVars, redisVars, cur, lastOk>>

\* s.done <- struct{}{} meets Shutdown's <-s.done
RSendDone ==
    /\ backend = "redis"
    /\ Alive
    /\ lpc = "sendDone"
    /\ spc = "waiting"
    /\ lpc' = AfterDone
    /\ spc' = "retNil"
    /\ UNCHANGED <<ghostVars, envVars, repoVars, procVars, proj, backend, index, closed, kafkaVars, redisVars, cur, lastOk>>

\* what Shutdown's read of s.pubsub may find (TRUE: the subscription): the
\* field is written by ListenAndServe's goroutine and read by the signal
\* goroutine with nothing ordering the two, so a read after the write may
\* still find nil
PubsubRead(assigned) == IF assigned THEN {TRUE, FALSE} ELSE {FALSE}

\* Server.Shutdown: s.pubsub.Close(), then wait; a nil s.pubsub panics
RShutdown ==
    /\ backend = "redis"
    /\ Alive
    /\ spc = "idle"
    /\ \E found \in PubsubRead(subscribed) :
         IF found
         THEN /\ closed' = TRUE
              /\ spc' = "waiting"
         ELSE /\ closed' = closed
              /\ spc' = "panic"
    /\ early' = (lpc = "init")
    /\ UNCHANGED <<drained, envVars, repoVars, procVars, proj, backend, index, lpc, kafkaVars, redisVars, cur, lastOk>>

\* what Shutdown returns on <-ctx.Done(): the wrapped ctx.Err()
RDeadlineReturn == "retErr"

\* Server.Shutdown: case <-ctx.Done()
RShutdownDeadline ==
    /\ backend = "redis"
    /\ Alive
    /\ spc = "waiting"
    /\ spc' = RDeadlineReturn
    /\ UNCHANGED <<ghostVars, envVars, repoVars, procVars, proj, backend, index, lpc, closed, kafkaVars, redisVars, cur, lastOk>>

\* run's signal goroutine: Shutdown returned, its error goes to errC
RSigReport ==
    /\ backend = "redis"
    /\ Alive
    /\ SigReport
    /\ UNCHANGED <<ghostVars, envVars, repoVars, mainpc, proj, backend, index, lpc, spc, closed, kafkaVars, redisVars, cur, lastOk>>

\* run's signal goroutine: the deferred clean-up closes errC
RSigCleanup ==
    /\ backend = "redis"
    /\ Alive
    /\ SigCleanup
    /\ UNCHANGED <<ghostVars, envVars, repoVars, mainpc, proj, backend, index, lpc, spc, closed, kafkaVars, redisVars, cur, lastOk>>

\* main: <-errC, then log.Fatalf or return
RMainRead ==
    /\ backend = "redis"
    /\ Alive
    /\ MainRead
    /\ UNCHANGED <<ghostVars, envVars, repoVars, sig, proj, backend, index, lpc, spc, closed, kafkaVars, redisVars, cur, lastOk>>

RedisNext ==
    \/ RListenAndServe
    \/ RPublish
    \/ RChanClose
    \/ RTake
    \/ RApplyReturn
    \/ RRangeEnd
    \/ RSendDone
    \/ RShutdown
    \/ RShutdownDeadline

Next == KafkaNext \/ RedisNext

Spec == Init /\ [][Next]_vars

\* ------------------------------------------- the Kafka loop, step by step
\* the Kafka program with the select and the Poll as separate steps, over an
\* index that starts empty
DrainInit ==
    /\ Init
    /\ backend = "kafka"
    /\ index = [i \in IDs |-> NoDoc]

DrainNext ==
    \/ KafkaNext
    \/ KSelectDefault
    \/ KPollEmpty

DrainSpec == DrainInit /\ [][DrainNext]_vars

\* ------------------------------------------- the process around the server
\* run and main around the server, over an index that starts empty
RunInit ==
    /\ Init
    /\ index = [i \in IDs |-> NoDoc]

RunNext ==
    \/ Next
    \/ KSigReport
    \/ KSigCleanup
    \/ KMainRead
    \/ RSigReport
    \/ RSigCleanup
    \/ RMainRead

RunSpec == RunInit /\ [][RunNext]_vars

\* ------------------------------------------- repository: calls in sequence
consumerVars ==
    <<backend, index, lpc, spc, closed, kafkaVars, redisVars, cur, lastOk, proj, procVars,
      ghostVars>>

\* a repository over an empty tasks table
RepoInit ==
    /\ backend = "repo"
    /\ index = [i \in IDs |-> NoDoc]
    /\ lpc = "init"
    /\ spc = "idle"
    /\ closed = FALSE
    /\ log = <<>>
    /\ position = 1
    /\ committed = 1
    /\ rebalances = 0
    /\ subscribed = FALSE
    /\ ch = <<>>
    /\ chClosed = FALSE
    /\ published = 0
    /\ cur = NoIteration
    /\ lastOk = NoMsg
    /\ failed = {}
    /\ proj = index
    /\ errC = [buf |-> <<>>, closed |-> FALSE]
    /\ mainpc = "waiting"
    /\ sig = "pre"
    /\ store = [u \in Uuids |-> NoRow]
    /\ issued = {}
    /\ last = NoCall
    /\ env = [n \in Names |-> Unset]
    /\ got = NoGet
    /\ drained = 0
    /\ early = FALSE

\* the record of a call that returned r
Called(op, id, args, r) ==
    [op |-> op, id |-> id, args |-> args, code |-> r.code, noRows |-> r.noRows,
     task |-> r.task, queries |-> r.queries]

\* a caller runs Task.Create; the table generates a UUID never used before
RepoCreate ==
    /\ backend = "repo"
    /\ \E u \in Uuids \ issued, d \in CreateDescs, p \in CreatePriorities, ds \in DatesIn :
         LET args == [Description |-> d, Priority |-> p, Dates |-> ds, IsDone |-> FALSE]
             r == Create(store, u, [Description |-> d, Priority |-> p, Dates |-> ds])
         IN /\ store' = r.store
            /\ issued' = IF r.code = "ok" THEN issued \cup {u} ELSE issued
            /\ last' = Called("Create", EmptyId, args, r)
    /\ UNCHANGED <<consumerVars, envVars>>

\* a caller runs Task.Find
RepoFind ==
    /\ backend = "repo"
    /\ \E id \in IdStringsIn :
         LET r == Find(store, id)
         IN /\ store' = r.store
            /\ last' = Called("Find", id, NoArgs, r)
    /\ UNCHANGED <<consumerVars, envVars, issued>>

\* a caller runs Task.Update
RepoUpdate ==
    /\ backend = "repo"
    /\ \E id \in IdStringsIn, d \in UpdateDescs, p \in UpdatePriorities, ds \in DatesIn,
          done \in BOOLEAN :
         LET args == [Description |-> d, Priority |-> p, Dates |-> ds, IsDone |-> done]
             r == Update(store, id, d, p, ds, done)
         IN /\ store' = r.store
            /\ last' = Called("Update", id, args, r)
    /\ UNCHANGED <<consumerVars, envVars, issued>>

\* a caller runs Task.Delete
RepoDelete ==
    /\ backend = "repo"
    /\ \E id \in IdStringsIn :
         LET r == Delete(store, id)
         IN /\ store' = r.store
            /\ last' = Called("Delete", id, NoArgs, r)
    /\ UNCHANGED <<consumerVars, envVars, issued>>

RepoNext ==
    \/ RepoCreate
    \/ RepoFind
    \/ RepoUpdate
    \/ RepoDelete

RepoSpec == RepoInit /\ [][RepoNext]_vars

\* ------------------------------------------ configuration: Get over an env
\* a process with nothing set in its environment
EnvInit ==
    /\ backend = "env"
    /\ index = [i \in IDs |-> NoDoc]
    /\ lpc = "init"
    /\ spc = "idle"
    /\ closed = FALSE
    /\ log = <<>>
    /\ position = 1
    /\ committed = 1
    /\ rebalances = 0
    /\ subscribed = FALSE
    /\ ch = <<>>
    /\ chClosed = FALSE
    /\ published = 0
    /\ cur = NoIteration
    /\ lastOk = NoMsg
    /\ failed = {}
    /\ proj = index
    /\ errC = [buf |-> <<>>, closed |-> FALSE]
    /\ mainpc = "waiting"
    /\ sig = "pre"
    /\ store = [u \in Uuids |-> NoRow]
    /\ issued = {}
    /\ last = NoCall
    /\ env = [n \in Names |-> Unset]
    /\ got = NoGet
    /\ drained = 0
    /\ early = FALSE

\* the environment changes: a variable is set or unset
EnvSet ==
    /\ backend = "env"
    /\ \E n \in Names, v \in {Unset} \cup {SetTo(x) : x \in EnvValues} :
         /\ env[n] # v
         /\ env' = [env EXCEPT ![n] = v]
    /\ got' = NoGet
    /\ UNCHANGED <<consumerVars, repoVars>>

\* a caller runs Configuration.Get
EnvGet ==
    /\ backend = "env"
    /\ \E key \in Keys, p \in ProviderOutcomes :
         LET r == Get(env, key, p)
         IN got' = [called |-> TRUE, key |-> key, p |-> p, value |-> r.value,
                    code |-> r.code, calls |-> r.calls]
    /\ UNCHANGED <<consumerVars, repoVars, env>>

EnvNext ==
    \/ EnvSet
    \/ EnvGet

EnvSpec == EnvInit /\ [][EnvNext]_vars

\* ================================================================ claims
KafkaApplierTypes == {Created, Updated, Deleted}

\* the iteration recorded in cur handled a Kafka message whose envelope decodes
KDecodes == backend = "kafka" /\ cur.wire # NoMsg /\ ~DecodeEnvelope(cur.wire).err

\* C1: in the Kafka loop, when Index or Delete returns an error for a polled
\* created/updated/deleted message, CommitMessage is not called for that
\* message (the committed offset does not move in that step) and the loop is
\* back at its select for the next poll.
C1_NoCommitOnApplyError ==
    /\ [](backend = "kafka" /\ cur.outcome = "applyErr"
            => /\ cur.nCommit = 0
               /\ DecodeEnvelope(cur.wire).Type \in KafkaApplierTypes
               /\ lpc = "loop" \/ closed)
    /\ [][backend = "kafka" /\ lpc = "applying" /\ cur'.outcome = "applyErr"
            => committed' = committed /\ lpc' = "loop"]_vars

C1_Witness ==
    /\ backend = "kafka"
    /\ cur.outcome = "applyErr"
    /\ cur.op = "Index"
    /\ cur.fault
    /\ lpc = "loop"
    /\ ~closed

\* C2: the committed offset of the Kafka consumer never moves past a message
\* whose latest apply failed.
C2_CommittedNeverPassesFailed ==
    backend = "kafka" => \A o \in failed : committed <= o

\* C3: in the Kafka loop a message that does not decode as an envelope is
\* committed (one CommitMessage call), causes no Index and no Delete call and
\* does not end the loop: the loop leaves its select only on the stop signal,
\* and a decodable created/updated/deleted message polled next is dispatched.
C3_PoisonMessage ==
    /\ [](backend = "kafka" /\ cur.outcome = "decodeErr"
            => /\ cur.nCommit = 1
               /\ cur.nIndex = 0
               /\ cur.nDelete = 0
               /\ lpc = "loop" \/ closed)
    /\ [][(/\ backend = "kafka"
           /\ cur.outcome = "decodeErr"
           /\ position' = position + 1
           /\ ~DecodeEnvelope(log[position]).err
           /\ DecodeEnvelope(log[position]).Type \in KafkaApplierTypes)
            => /\ cur'.wire = log[position]
               /\ cur'.nIndex + cur'.nDelete = 1
               /\ lpc' = "applying"]_vars

C3_Witness ==
    /\ backend = "kafka"
    /\ Len(log) = 2
    /\ log[1] = JMalformed
    /\ committed = 2
    /\ cur.off = 2
    /\ cur.nIndex = 1
    /\ lpc = "applying"

\* C4: type dispatch in both loops.  A decodable message tagged created or
\* updated causes exactly one Index call with the decoded task and no Delete;
\* one tagged deleted causes exactly one Delete call with the decoded ID and
\* no Index; any other tag causes no applier call.  The tag is the envelope's
\* Type for Kafka and the channel name for Redis.
C4_TypeDispatch ==
    /\ KDecodes =>
         LET e == DecodeEnvelope(cur.wire)
         IN /\ e.Type \in {Created, Updated}
                 => cur.nIndex = 1 /\ cur.task = e.Value /\ cur.nDelete = 0
            /\ e.Type = Deleted
                 => cur.nDelete = 1 /\ cur.id = e.Value.ID /\ cur.nIndex = 0
            /\ e.Type \notin KafkaApplierTypes
                 => cur.nIndex = 0 /\ cur.nDelete = 0
    /\ backend = "redis" /\ cur.wire # NoMsg =>
         LET c == cur.wire.channel
             p == cur.wire.payload
         IN /\ c \in {Created, Updated} /\ ~DecodeTask(p).err
                 => cur.nIndex = 1 /\ cur.task = DecodeTask(p).task /\ cur.nDelete = 0
            /\ c = Deleted /\ ~DecodeString(p).err
                 => cur.nDelete = 1 /\ cur.id = DecodeString(p).id /\ cur.nIndex = 0
            /\ c \notin KafkaApplierTypes
                 => cur.nIndex = 0 /\ cur.nDelete = 0

C4_Witness ==
    /\ backend = "redis"
    /\ cur.wire = [kind |-> "redis", channel |-> Deleted, payload |-> JString("b")]
    /\ cur.nDelete = 1
    /\ cur.id = "b"
    /\ cur.outcome = "applyOk"

\* C5: in the Kafka consumer a deleted envelope whose Value is a bare string
\* ID results in exactly one Delete call with that ID, and the message is
\* committed after the Delete succeeded.
C5_BareIdDelete ==
    \A id \in {"a"} :
        (/\ backend = "kafka"
         /\ cur.wire = JEnvelope(Deleted, JString(id))
         /\ lpc = "loop")
        => /\ cur.nDelete = 1
           /\ cur.id = id
           /\ cur.nIndex = 0
           /\ cur.outcome = "applyOk" => cur.nCommit = 1

\* C6: in the Kafka consumer a well-formed created/updated envelope with a
\* task of ID x causes exactly one Index call per delivery, with a task of ID
\* x; when Index succeeds CommitMessage is called exactly once for the
\* message; CommitMessage is not called for it before Index returned success
\* (the committed offset moves to it only in the step where Index succeeds).
KUpsertDelivery ==
    KDecodes /\ DecodeEnvelope(cur.wire).Type \in {Created, Updated}

C6_UpsertThenCommit ==
    /\ [](KUpsertDelivery
            => /\ cur.nIndex = 1
               /\ cur.nDelete = 0
               /\ cur.task.ID = cur.wire.Value.ID
               /\ cur.outcome = "applyOk" => cur.nCommit = 1
               /\ cur.nCommit > 0 => cur.nCommit = 1 /\ cur.outcome = "applyOk")
    /\ [][KUpsertDelivery' /\ committed' # committed
            => /\ lpc = "applying"
               /\ cur'.outcome = "applyOk"
               /\ committed' = cur'.off + 1]_vars

C6_Witness ==
    /\ backend = "kafka"
    /\ cur.wire = JEnvelope(Created, JTask("a", "d1"))
    /\ cur.task = [ID |-> "a", Description |-> "d1"]
    /\ cur.outcome = "applyOk"
    /\ cur.nCommit = 1
    /\ committed = cur.off + 1
    /\ index["a"] = "d1"

\* C7: once Server.Shutdown has returned nil, in either consumer, the loop
\* has stopped and no Index or Delete call starts, whatever is still pending
\* at the broker.
C7_NoApplyAfterShutdown ==
    /\ [](spc = "retNil" => lpc = "stopped")
    /\ [][spc = "retNil" => lpc' = lpc /\ cur' = cur /\ index' = index]_vars

C7_Witness ==
    /\ backend = "kafka"
    /\ spc = "retNil"
    /\ position <= Len(log)

\* C8: a call of Server.Shutdown, in either consumer, is waiting for the
\* completion notification or the deadline, or has returned; it has returned
\* nil only after the loop's completion notification, that is with the loop
\* stopped.
C8_ShutdownReturns ==
    /\ spc \in {"idle", "waiting", "retNil", "retErr"}
    /\ spc = "retNil" => lpc = "stopped"

\* C9: delivering again the created/updated message whose apply succeeded
\* last leaves the search index as the first delivery left it.
C9_DuplicateDelivery ==
    [][(/\ lpc = "applying"
        /\ cur.op = "Index"
        /\ cur.dup
        /\ cur'.outcome = "applyOk")
        => index' = index]_vars

C9_Witness ==
    /\ backend = "kafka"
    /\ Len(log) = 1
    /\ rebalances = 1
    /\ cur.dup
    /\ cur.op = "Index"
    /\ cur.outcome = "applyOk"
    /\ index[cur.task.ID] = cur.task.Description

\* C10: a Delete for an ID that is absent from the search index returns no
\* error unless the search collaborator itself fails, leaves the index
\* unchanged, and in the Kafka consumer is followed by one CommitMessage call.
C10_DeleteAbsent ==
    [][(/\ lpc = "applying"
        /\ lpc' = "loop"
        /\ cur.op = "Delete"
        /\ index[cur.id] = NoDoc
        /\ ~cur'.fault)
        => /\ cur'.outcome = "applyOk"
           /\ index' = index
           /\ backend = "kafka" => cur'.nCommit = 1]_vars

C10_Witness ==
    /\ backend = "kafka"
    /\ cur.op = "Delete"
    /\ cur.was = NoDoc
    /\ cur.outcome = "applyOk"
    /\ cur.nCommit = 1
    /\ index[cur.id] = NoDoc

\* C11: after any sequence of consumed events the index entry of every task
\* ID is what the successfully applied events leave for it: the payload of
\* the most recent applied created/updated event, nothing if that event was
\* a deleted event or none was applied to an empty index; an event whose
\* decode or apply failed leaves the entry as it was.
C11_IndexIsProjection ==
    backend \in {"kafka", "redis"} => \A id \in IDs : index[id] = proj[id]

\* an updated event was applied and a later event failed in decode or apply
C11_Witness ==
    /\ backend \in {"kafka", "redis"}
    /\ cur.outcome \in {"decodeErr", "applyErr"}
    /\ \E id \in IDs : index[id] = "d2"

\* C12: a Kafka envelope that decodes but whose Type is none of created,
\* updated, deleted is inert and acknowledged: no applier call is made for
\* it and CommitMessage is called for it, so it is not left for redelivery.
C12_UnknownTypeCommitted ==
    backend = "kafka" /\ cur.outcome = "noDispatch" =>
        /\ cur.nIndex = 0
        /\ cur.nDelete = 0
        /\ cur.nCommit = 1

\* a step of the consumer loop that handles a message: it was polled or
\* taken and decoded, or the applier returned and the commit was attempted
HandlerStep == lpc \in {"loop", "applying"} /\ cur' # cur

\* C13: only a start failure and a shutdown timeout reach the process
\* boundary: every value on errC is the non-nil error ListenAndServe
\* returned at start or the non-nil error Shutdown returned, main exits
\* fatally only on one of these, and no step that handles a message (its
\* decode, apply or commit failing or not) sends on errC, ends main or
\* ends the loop.
C13_OnlyStartAndShutdownErrors ==
    /\ [](/\ \A i \in 1..Len(errC.buf) :
               \/ errC.buf[i] = "start" /\ backend = "redis" /\ lpc = "startFailed"
               \/ errC.buf[i] = "shutdown" /\ spc = "retErr"
          /\ mainpc = "fatal" => lpc = "startFailed" \/ spc = "retErr")
    /\ [][HandlerStep =>
            /\ errC' = errC
            /\ mainpc' = mainpc
            /\ lpc' \in {"loop", "applying"}]_vars

\* an apply failed, the loop went on, and the shutdown timeout is on errC
C13_Witness ==
    /\ cur.outcome = "applyErr"
    /\ errC.buf = <<"shutdown">>

\* C14 as stated: when Server.Shutdown returns the deadline error, main
\* does not take a fatal exit on the value it reads from errC.
C14_NoFatalOnTimeout == spc = "retErr" => mainpc # "fatal"

\* C14 amended: a shutdown timeout is reported to the caller of Shutdown
\* and, through errC, to main, which exits through log.Fatalf on it: once
\* Shutdown has returned the deadline error and the signal goroutine has
\* gone past its report, the error is on errC until main reads it, main
\* never returns normally, and main returns normally only when Shutdown
\* returned nil.
C14_TimeoutIsFatal ==
    /\ spc = "retErr" =>
         /\ mainpc # "exit0"
         /\ sig # "pre" /\ mainpc = "waiting" => errC.buf = <<"shutdown">>
    /\ mainpc = "exit0" => spc = "retNil"

\* Shutdown timed out and main has exited through log.Fatalf
C14_Witness ==
    /\ spc = "retErr"
    /\ mainpc = "fatal"

\* C15: Redis start.  When pubsub.Receive fails, ListenAndServe returns the
\* error: no loop is launched, no message is handled, nothing is applied,
\* the error is on errC until main reads it and main then exits fatally;
\* the start is not tried again.  Otherwise ListenAndServe launches the
\* loop and returns nil with no message delivered yet and nothing on errC.
C15_RedisStart ==
    /\ [][backend = "redis" /\ lpc = "init" /\ lpc' # lpc =>
            \/ /\ lpc' = "loop"
               /\ subscribed'
               /\ published' = 0
               /\ errC' = errC
               /\ cur' = NoIteration
               /\ index' = index
            \/ /\ lpc' = "startFailed"
               /\ ~subscribed'
               /\ errC'.buf = <<"start">>
               /\ cur' = NoIteration
               /\ index' = index]_vars
    /\ [](lpc = "startFailed" =>
            /\ cur = NoIteration
            /\ mainpc # "exit0"
            /\ Alive => errC.buf = <<"start">>)
    /\ [][lpc = "startFailed" =>
            /\ lpc' = "startFailed"
            /\ mainpc' # mainpc => mainpc' = "fatal"]_vars

\* the subscription failed and main has exited through log.Fatalf
C15_Witness ==
    /\ backend = "redis"
    /\ lpc = "startFailed"
    /\ mainpc = "fatal"

\* the UUID an id string names (0 if it names none)
IdOf(id) == UuidParse(id).val

\* a time cut to the microsecond
Micros(t) == [us |-> t.us, ns |-> 0]

\* a Find that directly follows the successful call `op`, for the same id
FindAfter(op) ==
    /\ last.op = op
    /\ last.code = "ok"
    /\ last'.op = "Find"
    /\ ~UuidParse(last'.id).err
    /\ IdOf(last'.id) = IdOf(IF op = "Create" THEN last.task.ID ELSE last.id)

\* every row but the one of u is as it was
OthersUnchanged(u) == \A v \in Uuids \ {u} : store'[v] = store[v]

\* C16 as stated: a Find that follows Create with the returned ID returns
\* a task equal to the one Create returned; Create returns a non-empty ID
\* that no other stored task has.
C16_CreateFindRoundTrip ==
    /\ [][FindAfter("Create") => last'.code = "ok" /\ last'.task = last.task]_vars
    /\ [][last'.op = "Create" /\ last'.code = "ok" =>
            /\ last'.task.ID # EmptyId
            /\ store[IdOf(last'.task.ID)] = NoRow]_vars

\* C16 amended: a Find that follows Create with the returned ID returns
\* the same ID, description and priority, IsDone = false, and the dates
\* Create returned cut to the microsecond the table keeps (so the same
\* dates when they are zero or whole microseconds); Create returns a
\* non-empty ID that no other stored task has, and adds only that row.
C16_RoundTripToMicrosecond ==
    /\ [][FindAfter("Create") =>
            /\ last'.code = "ok"
            /\ last'.task = [last.task EXCEPT !.Dates = [Start |-> Micros(@.Start),
                                                         Due |-> Micros(@.Due)]]
            /\ ~last'.task.IsDone]_vars
    /\ [][last'.op = "Create" /\ last'.code = "ok" =>
            /\ last'.task.ID # EmptyId
            /\ store[IdOf(last'.task.ID)] = NoRow
            /\ store'[IdOf(last'.task.ID)] # NoRow
            /\ OthersUnchanged(IdOf(last'.task.ID))]_vars

\* Find returned a task as it was created, with dates set, beside another
C16_Witness ==
    /\ last.op = "Find"
    /\ last.code = "ok"
    /\ last.task.Description \in CreateDescs
    /\ last.task.Dates.Due # ZeroTime
    /\ \E v \in Uuids \ {IdOf(last.id)} : store[v] # NoRow

\* C17: after Delete succeeds for an existing task its row is gone, every
\* other row is as it was, and a Find that follows for that ID fails with
\* ErrorCodeNotFound wrapping the no-rows error.
C17_DeleteThenFind ==
    /\ [][last'.op = "Delete" /\ last'.code = "ok" =>
            /\ store[IdOf(last'.id)] # NoRow
            /\ store'[IdOf(last'.id)] = NoRow
            /\ OthersUnchanged(IdOf(last'.id))]_vars
    /\ [][FindAfter("Delete") => last'.code = "NotFound" /\ last'.noRows]_vars
    /\ [](last.op = "Find" /\ ~UuidParse(last.id).err /\ store[IdOf(last.id)] = NoRow =>
            last.code = "NotFound" /\ last.noRows)

\* a task that was created has been deleted, a Find for it failed, and
\* another task is still stored
C17_Witness ==
    /\ last.op = "Find"
    /\ last.code = "NotFound"
    /\ IdOf(last.id) \in issued
    /\ \E v \in Uuids : store[v] # NoRow

\* a call of `ops` with a well-formed UUID that matches no stored task
MissingCall(ops) ==
    /\ last'.op \in ops
    /\ ~UuidParse(last'.id).err
    /\ store[IdOf(last'.id)] = NoRow

\* C18 as stated: Find, Update and Delete called with a well-formed UUID
\* that matches no stored task return ErrorCodeNotFound and leave the
\* store unchanged.
C18_MissingIsNotFound ==
    [][MissingCall({"Find", "Update", "Delete"}) =>
         last'.code = "NotFound" /\ store' = store]_vars

\* C18 amended: Find and Delete, and Update when the priority passed is a
\* defined one, called with a well-formed UUID that matches no stored
\* task return ErrorCodeNotFound; all three leave the store unchanged.
C18_MissingIsNotFoundValidPriority ==
    [][MissingCall({"Find", "Update", "Delete"}) =>
         /\ store' = store
         /\ last'.op = "Update" /\ last'.args.Priority \notin DbPriority
               => last'.code = "Unknown"
         /\ ~(last'.op = "Update" /\ last'.args.Priority \notin DbPriority)
               => last'.code = "NotFound" /\ last'.noRows]_vars

\* Update was called for a UUID that was never stored, beside a stored task
C18_Witness ==
    /\ last.op = "Update"
    /\ last.code = "NotFound"
    /\ IdOf(last.id) \notin issued
    /\ \E v \in Uuids : store[v] # NoRow

\* C19: Find, Update and Delete called with an id that is not a UUID
\* return ErrorCodeInvalidArgument before any query is issued and leave
\* the store unchanged.
C19_InvalidUuid ==
    [][last'.op \in {"Find", "Update", "Delete"} /\ UuidParse(last'.id).err =>
         /\ last'.code = "InvalidArgument"
         /\ last'.queries = 0
         /\ store' = store]_vars

\* Delete was called with "x" while a task is stored
C19_Witness ==
    /\ last.op = "Delete"
    /\ last.id = BadId
    /\ last.code = "InvalidArgument"
    /\ \E v \in Uuids : store[v] # NoRow

\* the task Find returns for what an Update passed, with dates as given
Passed(id, args, dates) ==
    [ID |-> UuidString(IdOf(id)), Description |-> args.Description,
     Priority |-> args.Priority, Dates |-> dates, IsDone |-> args.IsDone]

\* C20 as stated: after Update succeeds, a Find for that ID returns exactly
\* the description, priority, dates and IsDone passed, under the same ID,
\* and every other stored task is unchanged.
C20_UpdateThenFind ==
    /\ [][FindAfter("Update") =>
            last'.code = "ok" /\ last'.task = Passed(last.id, last.args, last.args.Dates)]_vars
    /\ [][last'.op = "Update" /\ last'.code = "ok" =>
            OthersUnchanged(IdOf(last'.id))]_vars

\* C20 amended: after Update succeeds, a Find for that ID returns the
\* description, priority and IsDone passed and the dates passed cut to the
\* microsecond the table keeps, under the same ID, and every other stored
\* task is unchanged.
C20_UpdateThenFindToMicrosecond ==
    /\ [][FindAfter("Update") =>
            /\ last'.code = "ok"
            /\ last'.task = Passed(last.id, last.args,
                                   [Start |-> Micros(last.args.Dates.Start),
                                    Due |-> Micros(last.args.Dates.Due)])]_vars
    /\ [][last'.op = "Update" /\ last'.code = "ok" =>
            /\ store[IdOf(last'.id)] # NoRow
            /\ OthersUnchanged(IdOf(last'.id))]_vars

\* Find returned an updated task, marked done, beside another stored task
C20_Witness ==
    /\ last.op = "Find"
    /\ last.code = "ok"
    /\ last.task.Description \in UpdateDescs
    /\ last.task.IsDone
    /\ \E v \in Uuids \ {IdOf(last.id)} : store[v] # NoRow

\* what C21 says of a Get that ran in this environment, with `secured`
\* saying when the provider is used
GetAsClaimed(secured) ==
    got.called =>
        IF secured
        THEN /\ got.calls = <<Getenv(env, Secure(got.key))>>
             /\ got.p.err => got.value = "" /\ got.code = "InvalidArgument"
             /\ ~got.p.err => got.value = got.p.val /\ got.code = "ok"
        ELSE /\ got.calls = <<>>
             /\ got.value = Getenv(env, Plain(got.key))
             /\ got.code = "ok"

C22_KafkaDraining ==
    /\ [](backend = "kafka" => drained <= 1)
    /\ [][backend = "kafka" /\ closed =>
            /\ lpc = "loop" =>
                 /\ lpc' \in {"loop", "sendDone"}
                 /\ UNCHANGED <<cur, position, committed, index>>
            /\ position' > position => lpc = "polling" /\ drained = 0
            /\ lpc = "applying" /\ lpc' # lpc =>
                 /\ lpc' = "loop"
                 /\ cur'.outcome \in {"applyOk", "applyErr"}
            /\ lpc \in {"sendDone", "stopped"} =>
                 UNCHANGED <<cur, position, committed, index>>]_vars

C22_Witness ==
    /\ backend = "kafka"
    /\ drained = 1
    /\ cur.outcome = "applyOk"
    /\ cur.nCommit = 1
    /\ lpc = "stopped"

\* C23: Redis draining. Once Shutdown has closed the pubsub the loop takes no
\* further message from the subscription channel: none of the messages it
\* handles was taken after the close.
C23_RedisNoTakeAfterClose ==
    backend = "redis" => drained = 0

\* the loop takes the next message from the broker
Fetches ==
    \/ backend = "kafka" /\ position' = position + 1
    \/ backend = "redis" /\ lpc = "loop" /\ ch # <<>> /\ ch' = Tail(ch)

\* C24: one consumer handles its messages one at a time and in delivery
\* order. At most one Index/Delete call is in flight; a message is fetched
\* only when the applier call (and, for Kafka, the commit) of the one before
\* has returned; the message fetched is the next one the broker delivers.
C24_Sequential ==
    /\ [](/\ cur.nIndex + cur.nDelete <= 1
          /\ (cur.outcome = "applying") = (lpc = "applying"))
    /\ [][Fetches =>
            /\ lpc # "applying"
            /\ cur.outcome # "applying"
            /\ backend = "kafka" =>
                 /\ cur'.wire = log[position]
                 /\ cur'.off = position
            /\ backend = "redis" => cur'.wire = Head(ch)]_vars

C24_Witness ==
    /\ backend = "kafka"
    /\ lpc = "applying"
    /\ cur.off = 2
    /\ lastOk = log[1]
    /\ committed = 2

\* another goroutine operates on the broker handle: the signal goroutine's
\* deferred Unsubscribe / rdb.Close, or Redis Shutdown's pubsub.Close
TouchesHandle ==
    \/ sig # "cleaned" /\ sig' = "cleaned"
    \/ backend = "redis" /\ ~closed /\ closed'

\* C25: the broker handle belongs to the consumer loop while the loop is
\* alive. No step of another goroutine operates on the handle while the loop
\* is at its fetch, inside an applier call or committing.
C25_HandleOwnedByLoop ==
    [][TouchesHandle => lpc \notin {"loop", "polling", "applying"}]_vars

\* C26: the completion notification is one-shot and marks the stopped state.
\* The send is made only by a loop that has left its fetch loop; once made it
\* is never made again; from the moment the loop has left its fetch loop it
\* fetches nothing, calls no applier and commits nothing.
C26_DoneOnce ==
    [][/\ lpc' = "stopped" /\ lpc # "stopped" => lpc = "sendDone"
       /\ lpc = "sendDone" => lpc' \in {"sendDone", "stopped"}
       /\ lpc = "stopped" => lpc' = "stopped"
       /\ lpc \in {"sendDone", "stopped"} =>
            UNCHANGED <<cur, position, committed, index, ch, drained>>]_vars

C26_Witness ==
    /\ backend = "redis"
    /\ lpc = "stopped"
    /\ spc = "retNil"
    /\ cur.outcome = "applyOk"

\* C27: Redis Shutdown operates on an established subscription only: whenever
\* Shutdown has been called, ListenAndServe had assigned s.pubsub and the
\* call did not end in the panic of Close on a nil subscription.
C27_ShutdownOnSubscription ==
    backend = "redis" /\ spc # "idle" => subscribed /\ spc # "panic"

\* C28: the loop goroutine terminates after the stop signal. Its send on the
\* unbuffered done channel needs Shutdown's receive: whenever the loop stands
\* at that send, Shutdown has not yet returned the deadline error, so the
\* receive is there or still to come.
C28_DoneSendCompletes ==
    lpc = "sendDone" => spc # "retErr"

\* C29: Kafka, stop signal first. If Shutdown closed closeC before
\* ListenAndServe launched the loop, or while the loop stands at its select,
\* the loop starts no Poll, calls no applier and commits nothing; its next
\* steps are the exit from the select and the completion send, which
\* Shutdown's wait receives: Shutdown returns nil only by that receive. As
\* long as ListenAndServe has not been called there is no sender, and
\* Shutdown's wait can end only by the deadline.
C29_StopBeforeStart ==
    /\ [](backend = "kafka" /\ early =>
            /\ cur = NoIteration
            /\ position = 1 /\ committed = 1 /\ drained = 0
            /\ lpc \in {"init", "loop", "sendDone", "stopped"}
            /\ lpc = "loop" /\ spc # "panic" => ENABLED KSelectClose
            /\ lpc = "sendDone" /\ spc = "waiting" => ENABLED KSendDone)
    /\ [](backend = "kafka" =>
            /\ spc = "retNil" => lpc = "stopped"
            /\ lpc = "init" /\ spc = "waiting" =>
                 ~ENABLED KSendDone /\ ENABLED KShutdownDeadline
            /\ lpc = "init" => spc \in {"idle", "waiting", "retErr"})
    /\ [][backend = "kafka" /\ closed /\ lpc \in {"init", "loop"} =>
            /\ lpc' \in {"init", "loop", "sendDone"}
            /\ UNCHANGED <<cur, position, committed, index, drained>>]_vars

C29_Witness ==
    /\ backend = "kafka"
    /\ early
    /\ Len(log) > 0
    /\ lpc = "stopped"
    /\ spc = "retNil"

\* the event a wire message carries: its type tag and its payload text
EventOf(w) ==
    IF w.kind = "envelope" THEN [type |-> w.Type, value |-> w.Value]
    ELSE IF w.kind = "redis" THEN [type |-> w.channel, value |-> w.payload]
    ELSE [type |-> "", value |-> JMalformed]

\* the events of the comparison: created/updated with a task, deleted with
\* an ID, malformed, unknown type
Compared(e) ==
    \/ e.type \in {Created, Updated} /\ e.value.kind = "object"
    \/ e.type = Deleted /\ e.value.kind = "string"
    \/ e.value = JMalformed
    \/ e.type \notin {Created, Updated, Deleted}

\* the applier call the Kafka loop makes for an event
KafkaCall(e) ==
    LET evt == DecodeEnvelope(JEnvelope(e.type, e.value))
        d == KDispatch(evt)
    IN IF evt.err THEN <<"none", ZeroTask, "">> ELSE <<d.op, d.task, d.id>>

\* the applier call the Redis loop makes for an event
RedisCall(e) ==
    LET d == RDispatch([kind |-> "redis", channel |-> e.type, payload |-> e.value])
    IN IF d.op = "invalid" THEN <<"none", ZeroTask, "">> ELSE <<d.op, d.task, d.id>>

\* C30: the two backends do the same work. For each event the loop has
\* taken, the applier call it made (Index with the task, Delete with the ID,
\* or none) is the call the other backend's loop makes for the same event.
C30_BackendsEquivalent ==
    cur.wire # NoMsg /\ Compared(EventOf(cur.wire)) =>
        /\ <<cur.op, cur.task, cur.id>> = KafkaCall(EventOf(cur.wire))
        /\ <<cur.op, cur.task, cur.id>> = RedisCall(EventOf(cur.wire))

====
